---- MODULE Spec2Model ----
(***************************************************************************)
(* slick::ObjectPool<T> (include/slick/object_pool.h): a fixed-capacity    *)
(* MPMC pool.  A ring of pointers to free objects (free_objects_) is       *)
(* coordinated by a producer cursor (reserved_), a consumer cursor         *)
(* (consumed_) and one publication word per slot (control_[i].data_index). *)
(*                                                                         *)
(* Every access to shared memory (atomic load, store, CAS, and the plain  *)
(* reads and writes of free_objects_) is one step of the model; the       *)
(* thread-local computation between two accesses is folded into the step  *)
(* that follows it.  Addresses are integers: nullptr is 0, buffer_[k] is  *)
(* BufferBase + k, every other positive address is a heap address.        *)
(***************************************************************************)
EXTENDS Integers, Naturals, Sequences, FiniteSets, TLC

\* ------------------------------------------------------------------ bounds
MaxLogSize == 1      \* pools of capacity 2^0 .. 2^MaxLogSize are constructed
NumThreads == 2      \* client threads
MaxOps     == 4      \* allocate/free calls started in one run
MaxLongOps == 7      \* the same, in the longer runs of SpecLong
MaxSeqOps  == 8      \* the same, in the single-threaded runs of SpecSeq
MaxFairOps == 4      \* the same, in the fair runs of FairSpec
IndexBits  == 3      \* width of the absolute indices (uint64_t scaled down)

MostOps == IF MaxOps >= MaxLongOps
           THEN (IF MaxOps >= MaxSeqOps THEN MaxOps ELSE MaxSeqOps)
           ELSE (IF MaxLongOps >= MaxSeqOps THEN MaxLongOps ELSE MaxSeqOps)

\* --------------------------------------------------------------- addresses
nullptr    == 0
BufferBase == 2      \* &buffer_[0]; address 1 is a heap address below it

Threads == 1 .. NumThreads
Sizes   == { 2^k : k \in 0 .. MaxLogSize }

\* std::numeric_limits<uint64_t>::max() at the model's index width
UINT64_MAX == 2^IndexBits - 1

\* unsigned arithmetic of the absolute indices
Wrap(x) == x % (2^IndexBits)

RECURSIVE BitAnd(_, _)
BitAnd(a, b) ==
    IF a = 0 \/ b = 0 THEN 0
    ELSE (a % 2) * (b % 2) + 2 * BitAnd(a \div 2, b \div 2)

\* addresses `new T()` can return: outside the buffer, not nullptr
HeapAddrs(size) ==
    (1 .. (BufferBase - 1)) \cup ((BufferBase + size) .. (BufferBase + size + MostOps - 1))

AddrOf(k) == BufferBase + k

\* struct slot, default-initialised
EmptySlot == [data_index |-> UINT64_MAX, size |-> 1]

\* struct reserved_info, default-initialised
ReservedInfo0 == [index_ |-> 0, size_ |-> 0]

VARIABLES
    size_, mask_,            \* capacity and size_ - 1
    lower_bound_, upper_bound_,
    reserved_,               \* std::atomic<reserved_info>
    consumed_,               \* std::atomic_uint_fast64_t
    control_,                \* slot[size_]
    free_objects_,           \* T*[size_]
    heap,                    \* heap addresses currently allocated
    pc,                      \* per thread: position in allocate()/free()
    obj,                     \* per thread: argument of free()
    reserved, index,         \* per thread: locals of reserve()
    current_index, stored_index, next_index,   \* per thread: locals of consume()
    held,                    \* per thread: pointers returned by allocate(), not yet freed (a bag)
    ops,                     \* calls started so far
    budget,                  \* calls the run may start
    seed_i,                  \* loop variable i of the seeding loop (constructor, reset())
    \* history, read by no step of the pool:
    avail,                   \* per thread: highest index published and unclaimed when its allocate() began, -1 if none
    everFreed,               \* pool-owned pointers that have been passed to free() since construction or the last reset()
    run, open,               \* pointers returned since the pool last had every pooled pointer back, while no free() of a pooled pointer has begun
    publishedSlots,          \* the slots of the current control_ array into which publish() has stored (line 372)
    claimed,                 \* the indices of the current control_ array claimed by the CAS of consume() (line 413)
    resetDone                \* reset() has returned at least once

pool    == <<size_, mask_, lower_bound_, upper_bound_, budget, seed_i>>
ring    == <<reserved_, consumed_, control_, free_objects_>>
plocals == <<obj, reserved, index>>
clocals == <<current_index, stored_index, next_index>>
calls   == <<avail, everFreed, run, open, resetDone>>
hist    == <<avail, everFreed, run, open, publishedSlots, claimed, resetDone>>
vars    == <<size_, mask_, lower_bound_, upper_bound_, reserved_, consumed_,
             control_, free_objects_, heap, pc, obj, reserved, index,
             current_index, stored_index, next_index, held, ops, budget,
             seed_i, avail, everFreed, run, open, publishedSlots, claimed,
             resetDone>>

\* ------------------------------------------------- reserve() and publish()

\* a reservation that advances the producer cursor one slot too far
ReserveNextSkipping(r, n, size, mask) ==
    [next |-> [index_ |-> Wrap(r.index_ + n + 1), size_ |-> n], index |-> r.index_,
     wrapped |-> FALSE]

\* a reservation that never skips to the start of the ring
ReserveNextStraddling(r, n, size, mask) ==
    [next |-> [index_ |-> Wrap(r.index_ + n), size_ |-> n], index |-> r.index_,
     wrapped |-> FALSE]

\* the body of the do-loop of reserve(n): from the observed producer word,
\* the word to install, the index to return, and whether the reservation
\* skipped to the start of the ring
ReserveNext(r, n, size, mask) ==
    LET idx == BitAnd(r.index_, mask) IN
    IF idx + n > size
    THEN LET i == Wrap(r.index_ + (size - idx)) IN
         [next    |-> [index_ |-> Wrap(i + n), size_ |-> n],
          index   |-> i,
          wrapped |-> TRUE]
    ELSE [next    |-> [index_ |-> Wrap(r.index_ + n), size_ |-> n],
          index   |-> r.index_,
          wrapped |-> FALSE]

\* a failed compare_exchange that leaves `expected` as it was
CasExpectedKept(expected, found) == expected

\* compare_exchange on failure stores the value it found into `expected`
CasExpected(expected, found) == found

\* the wrap-skip record reserve() writes after a reservation that skipped
WrapRecord(ctl, r, i, n, mask) ==
    [ctl EXCEPT ![BitAnd(r.index_, mask)] = [data_index |-> i, size |-> n]]

\* a publication that stores the slot number instead of the absolute index
PublishedSlotNumber(ctl, i, n, mask) ==
    [ctl EXCEPT ![BitAnd(i, mask)] = [data_index |-> BitAnd(i, mask), size |-> n]]

\* publish(index, n)
Published(ctl, i, n, mask) ==
    [ctl EXCEPT ![BitAnd(i, mask)] = [data_index |-> i, size |-> n]]

\* free_objects_[index & mask_] = p
Stored(fo, i, p, mask) == [fo EXCEPT ![BitAnd(i, mask)] = p]

\* -------------------------------------------------------------- consume()

\* the reset test with its comparison reversed
ResetDetectedReversed(stored, producerIndex) ==
    stored # UINT64_MAX /\ producerIndex > stored

\* line 395: a published index ahead of the producer cursor
ResetDetected(stored, producerIndex) ==
    stored # UINT64_MAX /\ producerIndex < stored

\* line 401: nothing published at the consumer cursor
NoData(stored, current) ==
    stored = UINT64_MAX \/ stored < current

\* line 405: the slot holds a wrap-skip record
WrapSkip(stored, current, mask) ==
    stored > current /\ BitAnd(stored, mask) # BitAnd(current, mask)

\* a claim that advances the cursor one index too far
NextIndexSkipping(stored, slotSize) == Wrap(stored + slotSize + 1)

\* line 412: the value the claiming CAS installs
NextIndex(stored, slotSize) == Wrap(stored + slotSize)

\* line 415: the pointer a successful claim returns
ClaimedObject(fo, current, mask) == fo[BitAnd(current, mask)]

\* ----------------------------------------------------------------- free()

\* the ownership test with one of its two comparisons missing
PoolOwnedLowOnly(o, lo, hi) == o >= lo
PoolOwnedHighOnly(o, lo, hi) == o <= hi

\* line 237: the ownership test
PoolOwned(o, lo, hi) == o >= lo /\ o <= hi

\* ---------------------------------------------------------- construction

\* line 136: the asserted precondition, size && !(size & (size - 1))
IsPow2(size) == size # 0 /\ BitAnd(size, size - 1) = 0

\* uint32_t mask_(size - 1)
MaskOf(size) == Wrap(size - 1)

\* one iteration of the seeding loop, lines 141-143 (and 272-274), run by
\* one thread: index = reserve(); free_objects_[index & mask_] = &buffer_[i];
\* publish(index), applied to st = [reserved, control, free]
SeedStep(st, i, size, mask) ==
    LET r   == ReserveNext(st.reserved, 1, size, mask)
        ctl == IF r.wrapped
               THEN WrapRecord(st.control, st.reserved, r.index, 1, mask)
               ELSE st.control
    IN  [reserved |-> r.next,
         control  |-> Published(ctl, r.index, 1, mask),
         free     |-> Stored(st.free, r.index, AddrOf(i), mask)]

\* the seeding loop of the constructor (and of reset()), run by one thread:
\* iterations i .. size-1 applied to st = [reserved, control, free]
RECURSIVE SeedRing(_, _, _, _)
SeedRing(st, i, size, mask) ==
    IF i >= size THEN st
    ELSE SeedRing(SeedStep(st, i, size, mask), i + 1, size, mask)

\* ObjectPool(size), for a power of two size >= 1
Constructed(size) ==
    SeedRing([reserved |-> ReservedInfo0,
              control  |-> [s \in 0 .. size - 1 |-> EmptySlot],
              free     |-> [s \in 0 .. size - 1 |-> nullptr]],
             0, size, size - 1)

\* every address of the model, and the empty bag of held pointers
LastAddr == BufferBase + 2^(MaxLogSize + 1) + MostOps - 1
Addrs == nullptr .. LastAddr
EmptyBag == [a \in Addrs |-> 0]

\* the pool when the constructor has returned (lines 129-148), before the
\* first call.  The constructor leaves consumed_ as it found it: line 99
\* gives it no initialiser and no line of the constructor stores to it, so
\* its value is 0 where std::atomic zeroes it (from C++20 on) and
\* indeterminate in a build for an older standard.
InitPoolOf(sizes, budgeted) ==
    \E size \in sizes, garbage \in 0 .. UINT64_MAX :
        LET st == Constructed(size) IN
        /\ budget = budgeted
        /\ seed_i = size
        /\ avail = [t \in Threads |-> -1]
        /\ everFreed = {}
        /\ run = << >>
        /\ open = TRUE
        /\ publishedSlots = 0 .. size - 1
        /\ claimed = {}
        /\ resetDone = FALSE
        /\ size_ = size
        /\ mask_ = size - 1
        /\ lower_bound_ = AddrOf(0)
        /\ upper_bound_ = AddrOf(size - 1)
        /\ reserved_ = st.reserved
        /\ consumed_ = garbage
        /\ control_ = st.control
        /\ free_objects_ = st.free
        /\ heap = {}
        /\ pc = [t \in Threads |-> "idle"]
        /\ obj = [t \in Threads |-> nullptr]
        /\ reserved = [t \in Threads |-> ReservedInfo0]
        /\ index = [t \in Threads |-> 0]
        /\ current_index = [t \in Threads |-> 0]
        /\ stored_index = [t \in Threads |-> 0]
        /\ next_index = [t \in Threads |-> 0]
        /\ held = [t \in Threads |-> EmptyBag]
        /\ ops = 0

InitPool(budgeted) == InitPoolOf(Sizes, budgeted)

Init == InitPool(MaxOps)

\* ------------------------------------------------------------ the heap

\* `new T()`: an unused heap address; the lowest one on either side of the
\* buffer is offered
FreshAddrs ==
    LET unused == HeapAddrs(size_) \ heap
        below  == { a \in unused : a < lower_bound_ }
        above  == { a \in unused : a > upper_bound_ }
        Least(S) == { a \in S : \A b \in S : a <= b }
    IN  Least(below) \cup Least(above)

\* the pool is being seeded: inside the constructor (lines 129-148), or
\* inside reset() between the new control_ array of line 267 and the store
\* of line 276
Seeding == \E t \in Threads : pc[t] \in {"ctor_assert", "ctor_seed", "reset_seed"}

\* the index from which the published entries are unclaimed: consumed_.
\* While the pool is seeded consumed_ is not yet written (constructor) or
\* left over from the old array (reset(), until line 276), and no entry of
\* the new control_ has been claimed: the entries count from index 0.
ClaimedUpTo == IF Seeding THEN 0 ELSE consumed_

\* how far index i is ahead of the claimed indices, in the unsigned
\* arithmetic of the cursors
Ahead(i) == Wrap(i + 2^IndexBits - ClaimedUpTo)

\* the absolute indices published and not yet claimed: the indices from the
\* claimed ones up to the producer cursor, which may have wrapped past the
\* top index, whose slot holds that index as publish() stored it (line 372).
\* A slot into which publish() has not stored holds the initial value of
\* data_index (line 83), which is no publication, although it is equal to
\* the top index UINT64_MAX.
PublishedUnclaimed ==
    { i \in { Wrap(ClaimedUpTo + k) : k \in 0 .. Ahead(reserved_.index_) - 1 } :
          /\ BitAnd(i, mask_) \in publishedSlots
          /\ control_[BitAnd(i, mask_)].data_index = i }

\* the index of S farthest ahead of the consumer cursor, -1 if there is none
HighestOf(S) ==
    IF S = {} THEN -1 ELSE CHOOSE i \in S : \A j \in S : Ahead(j) <= Ahead(i)

\* history: allocate() of thread t returns a
Returned(t, a) ==
    /\ run' = IF open THEN Append(run, a) ELSE run
    /\ avail' = [avail EXCEPT ![t] = -1]
    /\ UNCHANGED <<everFreed, open, publishedSlots, claimed, resetDone>>

\* the addresses of buffer_[0 .. size_-1]
Storage == { AddrOf(k) : k \in 0 .. size_ - 1 }

\* no thread holds a pooled pointer
NoPooledHeld == \A u \in Threads, a \in Storage : held[u][a] = 0

Take(bag, a) == [bag EXCEPT ![a] = @ + 1]
Drop(bag, a) == [bag EXCEPT ![a] = @ - 1]

\* the locals of a finished call are dead; they are put back to their
\* initial values
ClearConsume(t) ==
    /\ current_index' = [current_index EXCEPT ![t] = 0]
    /\ stored_index' = [stored_index EXCEPT ![t] = 0]
    /\ next_index' = [next_index EXCEPT ![t] = 0]

ClearFree(t) ==
    /\ obj' = [obj EXCEPT ![t] = nullptr]
    /\ reserved' = [reserved EXCEPT ![t] = ReservedInfo0]
    /\ index' = [index EXCEPT ![t] = 0]

\* ------------------------------------------------------------ allocate()

\* line 390: consumed_.load(acquire)
LoadConsumed(t) ==
    /\ current_index' = [current_index EXCEPT ![t] = consumed_]
    /\ pc' = [pc EXCEPT ![t] = "load_slot"]
    /\ UNCHANGED <<pool, ring, heap, plocals, stored_index, next_index, held>>

\* a thread calls allocate(): consume() starts with its first load
Allocate(t) ==
    /\ pc[t] = "idle"
    /\ ops < budget
    /\ ops' = ops + 1
    /\ LoadConsumed(t)
    /\ avail' = [avail EXCEPT ![t] = HighestOf(PublishedUnclaimed)]
    /\ UNCHANGED <<everFreed, run, open, publishedSlots, claimed, resetDone>>

\* the loop of consume() comes round again
ConsumeReload(t) ==
    /\ pc[t] = "reload"
    /\ LoadConsumed(t)
    /\ UNCHANGED <<ops, hist>>

\* lines 391-393: current_slot->data_index.load(acquire)
ConsumeLoadSlot(t) ==
    /\ pc[t] = "load_slot"
    /\ stored_index' = [stored_index EXCEPT
           ![t] = control_[BitAnd(current_index[t], mask_)].data_index]
    /\ pc' = [pc EXCEPT ![t] = "check"]
    /\ UNCHANGED <<pool, ring, heap, plocals, current_index, next_index, held, ops, hist>>

\* allocate() line 204: consume() found nothing, `new T()` is returned
ReturnNew(t) ==
    \E a \in FreshAddrs :
        /\ heap' = heap \cup {a}
        /\ held' = [held EXCEPT ![t] = Take(@, a)]
        /\ pc' = [pc EXCEPT ![t] = "idle"]
        /\ ClearConsume(t)
        /\ Returned(t, a)

\* lines 395-412: the relaxed load of reserved_ (made only when the slot
\* holds an index) and the branch taken on the three values read
ConsumeCheck(t) ==
    /\ pc[t] = "check"
    /\ LET st  == stored_index[t]
           cur == current_index[t]
       IN  IF ResetDetected(st, reserved_.index_)
           THEN /\ pc' = [pc EXCEPT ![t] = "reset_store"]
                /\ UNCHANGED <<heap, held, clocals, hist>>
           ELSE IF NoData(st, cur)
           THEN ReturnNew(t)
           ELSE IF WrapSkip(st, cur, mask_)
           THEN /\ pc' = [pc EXCEPT ![t] = "skip_cas"]
                /\ UNCHANGED <<heap, held, clocals, hist>>
           ELSE /\ next_index' = [next_index EXCEPT
                       ![t] = NextIndex(st, control_[BitAnd(cur, mask_)].size)]
                /\ pc' = [pc EXCEPT ![t] = "claim_cas"]
                /\ UNCHANGED <<heap, held, current_index, stored_index, hist>>
    /\ UNCHANGED <<pool, ring, plocals, ops>>

\* line 397: consumed_.store(0), then continue
ConsumeResetStore(t) ==
    /\ pc[t] = "reset_store"
    /\ consumed_' = 0
    /\ pc' = [pc EXCEPT ![t] = "reload"]
    /\ UNCHANGED <<pool, reserved_, control_, free_objects_, heap, plocals,
                   clocals, held, ops, hist>>

\* line 407: the fast-forward CAS, whose result is ignored, then continue
ConsumeSkip(t) ==
    /\ pc[t] = "skip_cas"
    /\ \/ /\ consumed_ = current_index[t]
          /\ consumed_' = stored_index[t]
          /\ UNCHANGED current_index
       \/ /\ consumed_' = consumed_
          /\ current_index' = [current_index EXCEPT
                 ![t] = CasExpected(@, consumed_)]
    /\ pc' = [pc EXCEPT ![t] = "reload"]
    /\ UNCHANGED <<pool, reserved_, control_, free_objects_, heap, plocals,
                   stored_index, next_index, held, ops, hist>>

\* the claim made with a plain store instead of a compare-and-swap
ConsumeClaimStore(t) ==
    /\ pc[t] = "claim_cas"
    /\ consumed_' = next_index[t]
    /\ claimed' = claimed \cup {current_index[t]}
    /\ pc' = [pc EXCEPT ![t] = "read_obj"]
    /\ UNCHANGED <<pool, reserved_, control_, free_objects_, heap, plocals,
                   clocals, held, ops, calls, publishedSlots>>

\* line 413: the claiming CAS succeeds
ConsumeClaim(t) ==
    /\ pc[t] = "claim_cas"
    /\ consumed_ = current_index[t]
    /\ consumed_' = next_index[t]
    /\ claimed' = claimed \cup {current_index[t]}
    /\ pc' = [pc EXCEPT ![t] = "read_obj"]
    /\ UNCHANGED <<pool, reserved_, control_, free_objects_, heap, plocals,
                   clocals, held, ops, calls, publishedSlots>>

\* line 413: the claiming CAS fails because the cursor has moved
ConsumeClaimFail(t) ==
    /\ pc[t] = "claim_cas"
    /\ consumed_ # current_index[t]
    /\ current_index' = [current_index EXCEPT ![t] = CasExpected(@, consumed_)]
    /\ pc' = [pc EXCEPT ![t] = "reload"]
    /\ UNCHANGED <<pool, ring, heap, plocals, stored_index, next_index, held, ops, hist>>

\* line 413: compare_exchange_weak fails although the cursor has not moved
ConsumeClaimSpurious(t) ==
    /\ pc[t] = "claim_cas"
    /\ consumed_ = current_index[t]
    /\ pc' = [pc EXCEPT ![t] = "reload"]
    /\ UNCHANGED <<pool, ring, heap, plocals, clocals, held, ops, hist>>

\* line 206, assert(size == 1): where a call that has read `size` goes on.
\* With assertions compiled in a size other than 1 aborts; with NDEBUG the
\* assertion is no code and allocate() returns.
AfterSizeAssert(sz) == IF sz = 1 THEN {"idle"} ELSE {"idle", "assert_failed"}

\* line 415 and allocate() lines 202-207: the plain reads of
\* free_objects_[current_index & mask_] and current_slot->size, made after
\* the CAS, and the return of allocate()
ConsumeReturn(t) ==
    /\ pc[t] = "read_obj"
    /\ LET o  == ClaimedObject(free_objects_, current_index[t], mask_)
           sz == control_[BitAnd(current_index[t], mask_)].size
       IN  IF o = nullptr
           THEN ReturnNew(t)
           ELSE /\ held' = [held EXCEPT ![t] = Take(@, o)]
                /\ \E after \in AfterSizeAssert(sz) :
                       pc' = [pc EXCEPT ![t] = after]
                /\ ClearConsume(t)
                /\ Returned(t, o)
                /\ UNCHANGED heap
    /\ UNCHANGED <<pool, ring, plocals, ops>>

\* ----------------------------------------------------------------- free()

\* free(p) up to its first access to shared memory: the ownership test,
\* then either the load of reserved_ that opens reserve() (line 307), or
\* `delete obj`.  `allocated` is the heap before the call.
FreeCall(t, p, allocated) ==
    IF PoolOwned(p, lower_bound_, upper_bound_)
    THEN /\ obj' = [obj EXCEPT ![t] = p]
         /\ reserved' = [reserved EXCEPT ![t] = reserved_]
         /\ pc' = [pc EXCEPT ![t] = "reserve_cas"]
         /\ heap' = allocated
         /\ everFreed' = everFreed \cup {p}
         /\ open' = FALSE
         /\ run' = << >>
         /\ UNCHANGED <<index, avail, publishedSlots, claimed, resetDone>>
    ELSE /\ heap' = allocated \ {p}
         /\ UNCHANGED <<pc, plocals, hist>>

\* thread t calls free(p) with a pointer it got from allocate()
FreeOf(t, p) ==
    /\ pc[t] = "idle"
    /\ ops < budget
    /\ held[t][p] > 0
    /\ held' = [held EXCEPT ![t] = Drop(@, p)]
    /\ FreeCall(t, p, heap)
    /\ ops' = ops + 1
    /\ UNCHANGED <<pool, ring, clocals>>

Free(t) == \E p \in Addrs : FreeOf(t, p)

\* thread t calls free(p) with an object it made itself with `new T()`
FreeForeignOf(t, p) ==
    /\ pc[t] = "idle"
    /\ ops < budget
    /\ p \in FreshAddrs
    /\ FreeCall(t, p, heap \cup {p})
    /\ ops' = ops + 1
    /\ UNCHANGED <<pool, ring, clocals, held>>

FreeForeign(t) == \E p \in Addrs : FreeForeignOf(t, p)

\* line 327: the reservation CAS succeeds
ReserveCAS(t) ==
    /\ pc[t] = "reserve_cas"
    /\ reserved_ = reserved[t]
    /\ LET r == ReserveNext(reserved[t], 1, size_, mask_) IN
          /\ reserved_' = r.next
          /\ index' = [index EXCEPT ![t] = r.index]
          /\ pc' = [pc EXCEPT ![t] = IF r.wrapped THEN "wrap_store" ELSE "write_ptr"]
    /\ UNCHANGED <<pool, consumed_, control_, free_objects_, heap, obj, reserved,
                   clocals, held, ops, hist>>

\* line 327: the reservation CAS fails and reloads `reserved`.  (A spurious
\* failure of this CAS changes nothing and is a stuttering step.)
ReserveCASFail(t) ==
    /\ pc[t] = "reserve_cas"
    /\ reserved_ # reserved[t]
    /\ reserved' = [reserved EXCEPT ![t] = CasExpected(@, reserved_)]
    /\ UNCHANGED <<pool, ring, heap, pc, obj, index, clocals, held, ops, hist>>

\* lines 329-335: the wrap-skip record
ReserveWrapStore(t) ==
    /\ pc[t] = "wrap_store"
    /\ control_' = WrapRecord(control_, reserved[t], index[t], 1, mask_)
    /\ pc' = [pc EXCEPT ![t] = "write_ptr"]
    /\ UNCHANGED <<pool, reserved_, consumed_, free_objects_, heap, plocals,
                   clocals, held, ops, hist>>

\* line 240: free_objects_[index & mask_] = obj
FreeStore(t) ==
    /\ pc[t] = "write_ptr"
    /\ free_objects_' = Stored(free_objects_, index[t], obj[t], mask_)
    /\ pc' = [pc EXCEPT ![t] = "publish"]
    /\ UNCHANGED <<pool, reserved_, consumed_, control_, heap, plocals,
                   clocals, held, ops, hist>>

\* line 241: publish(index), and free() returns
Publish(t) ==
    /\ pc[t] = "publish"
    /\ control_' = Published(control_, index[t], 1, mask_)
    /\ publishedSlots' = publishedSlots \cup {BitAnd(index[t], mask_)}
    /\ pc' = [pc EXCEPT ![t] = "idle"]
    /\ ClearFree(t)
    /\ open' = (NoPooledHeld /\ \A u \in Threads \ {t} : pc[u] = "idle")
    /\ run' = << >>
    /\ UNCHANGED <<pool, reserved_, consumed_, free_objects_, heap, clocals,
                   held, ops, avail, everFreed, claimed, resetDone>>

\* -------------------------------------------------------- specifications

\* the steps of thread t in runs without reset(), where every reservation
\* is one slot wide (NoColdBranch: the steps left out are never reached)
StepFair(t) ==
    \/ Allocate(t)
    \/ ConsumeReload(t)
    \/ ConsumeLoadSlot(t)
    \/ ConsumeCheck(t)
    \/ ConsumeClaim(t)
    \/ ConsumeClaimFail(t)
    \/ ConsumeReturn(t)
    \/ Free(t)
    \/ FreeForeign(t)
    \/ ReserveCAS(t)
    \/ ReserveCASFail(t)
    \/ FreeStore(t)
    \/ Publish(t)

\* the same, with the failures compare_exchange_weak is allowed for no reason
Step(t) == StepFair(t) \/ ConsumeClaimSpurious(t)

Next == \E t \in Threads : Step(t)

Spec == Init /\ [][Next]_vars

\* preemptive threads, spurious CAS failures set aside: while some thread
\* can take a step, a step is eventually taken
InitFair == InitPool(MaxFairOps)
NextFair == \E t \in Threads : StepFair(t)
FairSpec == InitFair /\ [][NextFair]_vars /\ WF_vars(NextFair)

\* the same pool and threads with a larger budget of calls
InitLong == InitPool(MaxLongOps)
SpecLong == InitLong /\ [][Next]_vars

\* one thread alone: a CAS of a thread that runs alone fails only spuriously
SeqThread == 1
InitSeq == InitPool(MaxSeqOps)
NextSeq ==
    \/ Allocate(SeqThread)
    \/ ConsumeReload(SeqThread)
    \/ ConsumeLoadSlot(SeqThread)
    \/ ConsumeCheck(SeqThread)
    \/ ConsumeClaim(SeqThread)
    \/ ConsumeClaimSpurious(SeqThread)
    \/ ConsumeReturn(SeqThread)
    \/ Free(SeqThread)
    \/ FreeForeign(SeqThread)
    \/ ReserveCAS(SeqThread)
    \/ FreeStore(SeqThread)
    \/ Publish(SeqThread)
SpecSeq == InitSeq /\ [][NextSeq]_vars

\* ------------------------------------------------ construction, stepwise

\* the capacities a caller passes to the constructor
CtorSizes == 0 .. 2^(MaxLogSize + 1)

\* lines 130-134 and the default member initialisers: the object when the
\* body of the constructor begins.  new T*[size_] leaves the entries of
\* free_objects_ indeterminate; for a power-of-two size each one is written
\* by the seeding loop before anything reads it.  consumed_ (line 99) has
\* no initialiser and the constructor never stores to it: std::atomic
\* zeroes it from C++20 on, an older standard leaves it indeterminate.
InitCtor ==
    \E size \in CtorSizes, garbage \in 0 .. UINT64_MAX :
        /\ budget = MaxOps
        /\ seed_i = 0
        /\ avail = [t \in Threads |-> -1]
        /\ everFreed = {}
        /\ run = << >>
        /\ open = TRUE
        /\ publishedSlots = {}
        /\ claimed = {}
        /\ resetDone = FALSE
        /\ size_ = size
        /\ mask_ = MaskOf(size)
        /\ lower_bound_ = 0
        /\ upper_bound_ = 0
        /\ reserved_ = ReservedInfo0
        /\ consumed_ = garbage
        /\ control_ = [s \in 0 .. size - 1 |-> EmptySlot]
        /\ free_objects_ = [s \in 0 .. size - 1 |-> nullptr]
        /\ heap = {}
        /\ pc = [t \in Threads |-> IF t = SeqThread THEN "ctor_assert" ELSE "idle"]
        /\ obj = [t \in Threads |-> nullptr]
        /\ reserved = [t \in Threads |-> ReservedInfo0]
        /\ index = [t \in Threads |-> 0]
        /\ current_index = [t \in Threads |-> 0]
        /\ stored_index = [t \in Threads |-> 0]
        /\ next_index = [t \in Threads |-> 0]
        /\ held = [t \in Threads |-> EmptyBag]
        /\ ops = 0

\* line 136 in a build with assertions: the process aborts unless the size
\* is a power of two
CtorAssert ==
    /\ pc[SeqThread] = "ctor_assert"
    /\ pc' = [pc EXCEPT ![SeqThread] =
                 IF IsPow2(size_) THEN "ctor_seed" ELSE "assert_failed"]
    /\ UNCHANGED <<pool, ring, heap, plocals, clocals, held, ops, hist>>

\* line 136 in a build with NDEBUG: assert() expands to nothing
CtorNoAssert ==
    /\ pc[SeqThread] = "ctor_assert"
    /\ pc' = [pc EXCEPT ![SeqThread] = "ctor_seed"]
    /\ UNCHANGED <<pool, ring, heap, plocals, clocals, held, ops, hist>>

\* lines 140-144: one iteration of the seeding loop
CtorSeed ==
    /\ pc[SeqThread] = "ctor_seed"
    /\ seed_i < size_
    /\ LET st == SeedStep([reserved |-> reserved_, control |-> control_,
                           free |-> free_objects_], seed_i, size_, mask_)
       IN  /\ reserved_' = st.reserved
           /\ control_' = st.control
           /\ free_objects_' = st.free
    /\ seed_i' = seed_i + 1
    /\ publishedSlots' = publishedSlots \cup
           {BitAnd(ReserveNext(reserved_, 1, size_, mask_).index, mask_)}
    /\ UNCHANGED <<size_, mask_, lower_bound_, upper_bound_, budget, consumed_,
                   heap, pc, plocals, clocals, held, ops, calls, claimed>>

\* lines 146-147, after the loop: the ownership bounds; the constructor
\* returns
CtorBounds ==
    /\ pc[SeqThread] = "ctor_seed"
    /\ seed_i >= size_
    /\ lower_bound_' = AddrOf(0)
    /\ upper_bound_' = AddrOf(mask_)
    /\ pc' = [pc EXCEPT ![SeqThread] = "idle"]
    /\ UNCHANGED <<size_, mask_, budget, seed_i, ring, heap, plocals, clocals,
                   held, ops, hist>>

\* lines 153-162: ~ObjectPool() between two calls.  The three arrays are
\* released and their pointers set to nullptr; the pooled pointers still
\* held dangle, heap objects still held stay allocated.  Nothing may be
\* called on the pool afterwards.
Destroy ==
    /\ pc[SeqThread] = "idle"
    /\ control_' = << >>
    /\ free_objects_' = << >>
    /\ publishedSlots' = {}
    /\ pc' = [pc EXCEPT ![SeqThread] = "destroyed"]
    /\ UNCHANGED <<pool, reserved_, consumed_, heap, plocals, clocals, held,
                   ops, calls, claimed>>

\* construction, then one thread using the pool, then destruction.
\* allocate() and free() on a pool whose size is not a power of two index
\* control_ and free_objects_ with a mask that is not size - 1; those runs
\* go from the constructor to the destructor.
NextCtor ==
    \/ CtorAssert
    \/ CtorNoAssert
    \/ CtorSeed
    \/ CtorBounds
    \/ (IsPow2(size_) /\ NextSeq)
    \/ Destroy
SpecCtor == InitCtor /\ [][NextCtor]_vars

\* ----------------------------------------------------------------- reset()

\* a reset() that keeps the producer cursor and the control array
ResetNotCleared(r, ctl, fo, size) ==
    [reserved |-> r, control |-> ctl, free |-> fo]

\* lines 266-269: control_ is replaced by a fresh array and reserved_ is
\* zeroed; free_objects_ is kept.  The record the seeding loop starts from.
ResetCleared(r, ctl, fo, size) ==
    [reserved |-> ReservedInfo0,
     control  |-> [s \in 0 .. size - 1 |-> EmptySlot],
     free     |-> fo]

\* reset() is called while no other call is in progress (it is documented
\* as not thread-safe); lines 266-270
ResetBegin ==
    /\ pc[SeqThread] = "idle"
    /\ ops < budget
    /\ ops' = ops + 1
    /\ LET st == ResetCleared(reserved_, control_, free_objects_, size_)
       IN  /\ reserved_' = st.reserved
           /\ control_' = st.control
           /\ free_objects_' = st.free
    /\ seed_i' = 0
    /\ publishedSlots' = {}
    /\ claimed' = {}
    /\ pc' = [pc EXCEPT ![SeqThread] = "reset_seed"]
    /\ UNCHANGED <<size_, mask_, lower_bound_, upper_bound_, budget, consumed_,
                   heap, plocals, clocals, held, calls>>

\* lines 271-275: one iteration of the seeding loop
ResetSeed ==
    /\ pc[SeqThread] = "reset_seed"
    /\ seed_i < size_
    /\ LET st == SeedStep([reserved |-> reserved_, control |-> control_,
                           free |-> free_objects_], seed_i, size_, mask_)
       IN  /\ reserved_' = st.reserved
           /\ control_' = st.control
           /\ free_objects_' = st.free
    /\ seed_i' = seed_i + 1
    /\ publishedSlots' = publishedSlots \cup
           {BitAnd(ReserveNext(reserved_, 1, size_, mask_).index, mask_)}
    /\ UNCHANGED <<size_, mask_, lower_bound_, upper_bound_, budget, consumed_,
                   heap, pc, plocals, clocals, held, ops, calls, claimed>>

\* line 276: consumed_.store(0); reset() returns.  The ring again has every
\* pooled pointer, whatever the callers still hold; the history starts anew.
ResetEnd ==
    /\ pc[SeqThread] = "reset_seed"
    /\ seed_i >= size_
    /\ consumed_' = 0
    /\ pc' = [pc EXCEPT ![SeqThread] = "idle"]
    /\ everFreed' = {}
    /\ run' = << >>
    /\ open' = TRUE
    /\ resetDone' = TRUE
    /\ UNCHANGED <<pool, reserved_, control_, free_objects_, heap, plocals,
                   clocals, held, ops, avail, publishedSlots, claimed>>

\* one thread using the pool and resetting it
NextReset ==
    \/ ResetBegin
    \/ ResetSeed
    \/ ResetEnd
    \/ NextSeq
SpecReset == InitSeq /\ [][NextReset]_vars

\* ------------------------------------------------- index wrap-around runs

\* calls enough to carry both cursors past 2^IndexBits - 1
WrapOps == 2^(IndexBits + 1) + 4

InitWrap == InitPool(WrapOps)

\* one thread repeating `allocate size_ objects, free them all`, as
\* WrapAroundTest does: of every 2 * size_ calls the first size_ are
\* allocate(), whatever they return, and the others free() what is held
AllocateInCycle == ops % (2 * size_) < size_ /\ Allocate(SeqThread)
FreeInCycle == ops % (2 * size_) >= size_ /\ Free(SeqThread)

NextWrap ==
    \/ AllocateInCycle
    \/ ConsumeReload(SeqThread)
    \/ ConsumeLoadSlot(SeqThread)
    \/ ConsumeCheck(SeqThread)
    \/ ConsumeResetStore(SeqThread)
    \/ ConsumeClaim(SeqThread)
    \/ ConsumeClaimSpurious(SeqThread)
    \/ ConsumeReturn(SeqThread)
    \/ FreeInCycle
    \/ ReserveCAS(SeqThread)
    \/ FreeStore(SeqThread)
    \/ Publish(SeqThread)
SpecWrap == InitWrap /\ [][NextWrap]_vars

\* ------------------------------------------------ reserve(n) of any width

\* reserve(n) is private, and the pool itself calls it with n = 1 only
\* (lines 141, 238, 272).  Here the function is applied with every width
\* 1 <= n <= size_ in the states one thread reaches through allocate() and
\* free(); nothing is stored or published for a reservation made this way.

\* the producer cursor stays below the index wrap
BelowWrap(next) == next > reserved_.index_ /\ next < UINT64_MAX

\* lines 304-327, 336 for a thread running alone: the load of reserved_ and
\* the do-loop, whose CAS cannot fail; without a skip reserve() returns
ReserveOf(t, n) ==
    /\ pc[t] = "idle"
    /\ ops < budget
    /\ LET r == ReserveNext(reserved_, n, size_, mask_) IN
          /\ BelowWrap(r.next.index_)
          /\ reserved_' = r.next
          /\ IF r.wrapped
             THEN /\ index' = [index EXCEPT ![t] = r.index]
                  /\ reserved' = [reserved EXCEPT ![t] = reserved_]
                  /\ pc' = [pc EXCEPT ![t] = "wrap_store"]
             ELSE UNCHANGED <<index, reserved, pc>>
    /\ ops' = ops + 1
    /\ UNCHANGED <<pool, consumed_, control_, free_objects_, heap, obj, clocals,
                   held, hist>>

Reserve(t) == \E n \in 1 .. size_ : ReserveOf(t, n)

\* lines 329-336: the wrap-skip record; n is the size_ of the word this
\* thread has just installed in reserved_; reserve() returns
ReserveRecord(t) ==
    /\ pc[t] = "wrap_store"
    /\ control_' = WrapRecord(control_, reserved[t], index[t], reserved_.size_, mask_)
    /\ pc' = [pc EXCEPT ![t] = "idle"]
    /\ ClearFree(t)
    /\ UNCHANGED <<pool, reserved_, consumed_, free_objects_, heap, clocals,
                   held, ops, hist>>

\* free() while its reservation stays below the index wrap
FreeBelowWrap(t) == BelowWrap(reserved_.index_ + 1) /\ Free(t)

NextReserve ==
    \/ Allocate(SeqThread)
    \/ ConsumeReload(SeqThread)
    \/ ConsumeLoadSlot(SeqThread)
    \/ ConsumeCheck(SeqThread)
    \/ ConsumeSkip(SeqThread)
    \/ ConsumeClaim(SeqThread)
    \/ ConsumeReturn(SeqThread)
    \/ FreeBelowWrap(SeqThread)
    \/ ReserveCAS(SeqThread)
    \/ FreeStore(SeqThread)
    \/ Publish(SeqThread)
    \/ Reserve(SeqThread)
    \/ ReserveRecord(SeqThread)
SpecReserve == InitSeq /\ [][NextReserve]_vars

\* ------------------------------------------------------------ bookkeeping

\* how many of the threads 1 .. n hold address a
RECURSIVE HeldBy(_, _)
HeldBy(n, a) ==
    IF n = 0 THEN 0 ELSE held[n][a] + HeldBy(n - 1, a)

\* how many callers hold address a
HeldCount(a) == HeldBy(NumThreads, a)

\* pointers held in the address range from .. to, with multiplicity
RECURSIVE HeldIn(_, _)
HeldIn(from, to) ==
    IF from > to THEN 0 ELSE HeldCount(from) + HeldIn(from + 1, to)

\* pooled and overflow pointers held by callers, with multiplicity
PooledHeld   == HeldIn(lower_bound_, upper_bound_)
OverflowHeld == HeldIn(nullptr, lower_bound_ - 1) + HeldIn(upper_bound_ + 1, LastAddr)

Quiescent == \A t \in Threads : pc[t] = "idle"

\* the branches that only reset() or a reservation wider than one slot can
\* lead to are never entered, and the assertion of allocate() never fails
NoColdBranch ==
    \A t \in Threads : pc[t] \notin {"reset_store", "skip_cas", "wrap_store", "assert_failed"}

\* ------------------------------------------------------------------ claims

\* C1 (uniqueness): at every instant the pointers that callers hold from
\* allocate() and have not yet freed are pairwise distinct.
C1_HeldPointersDistinct ==
    \A a \in Addrs : HeldCount(a) <= 1

\* C1, the state in which the case has happened: two allocate() calls have
\* each claimed an index and returned.
C1_TwoHeld ==
    PooledHeld >= 2 /\ Quiescent

\* how many unclaimed published ring entries hold address a
RingCount(a) ==
    Cardinality({ i \in PublishedUnclaimed : free_objects_[BitAnd(i, mask_)] = a })

\* C2 (conservation): when no call is in progress every pooled object is
\* exactly once among the live ring entries and the pointers callers hold.
C2_Conservation ==
    Quiescent => \A a \in Storage : RingCount(a) + HeldCount(a) = 1

\* C3: allocate() takes the heap path only when the ring holds no published,
\* unclaimed pointer.  Stated for the allocate() most clearly entitled to a
\* pooled pointer: one published before the call began is still unclaimed as
\* the call is about to return `new T()`.
C3_HeapOnlyWhenRingEmpty ==
    \A t \in Threads :
        (pc[t] = "check" /\ NoData(stored_index[t], current_index[t]))
            => avail[t] < consumed_

\* C4: allocate() never returns null; a pointer it takes from the ring is
\* the address of a storage element, inside [lo, hi]; any other result is a
\* live heap object outside [lo, hi].
C4_AllocateResult ==
    /\ \A t \in Threads :
          pc[t] = "read_obj" =>
              LET o == ClaimedObject(free_objects_, current_index[t], mask_) IN
              o \in Storage /\ o >= lower_bound_ /\ o <= upper_bound_
    /\ \A t \in Threads, a \in Addrs :
          held[t][a] > 0 =>
              /\ a # nullptr
              /\ \/ a \in Storage
                 \/ a \in heap /\ (a < lower_bound_ \/ a > upper_bound_)

\* C4, the case: one caller holds a pooled pointer, one an overflow object,
\* and an allocate() is about to read its claimed ring entry.
C4_BothKindsReturned ==
    /\ PooledHeld > 0
    /\ OverflowHeld > 0
    /\ \E t \in Threads : pc[t] = "read_obj"

\* every call so far was an allocate() that has returned
OnlyAllocations == open /\ Len(run) = ops

\* C5 (exhaustion): of N+k allocate() calls on a fresh pool with no free(),
\* the first N return N distinct pooled pointers and the other k return
\* overflow objects; no call fails.
C5_Exhaustion ==
    /\ pc[SeqThread] # "assert_failed"
    /\ OnlyAllocations =>
          \A i \in 1 .. Len(run) :
              IF i <= size_
              THEN /\ run[i] \in Storage
                   /\ \A j \in 1 .. (i - 1) : run[j] # run[i]
              ELSE run[i] # nullptr /\ ~(run[i] >= lower_bound_ /\ run[i] <= upper_bound_)

\* C5, the case: the pool is exhausted and overflow objects were returned.
C5_Exhausted ==
    OnlyAllocations /\ Len(run) >= size_ + 2

\* C6 (reuse): once every pooled pointer is back and nothing is in progress,
\* the next N allocate() calls return the N storage addresses, each once.
C6_Reuse ==
    (open /\ Quiescent /\ Len(run) = size_)
        => { run[i] : i \in 1 .. Len(run) } = Storage

NatDiff(a, b) == IF a >= b THEN a - b ELSE 0

\* C7 (holding bounds): at most N pooled pointers are held, and at most
\* (calls started) - N overflow pointers, the bound read as zero while fewer
\* than N calls have started.
C7_HoldingBounds ==
    /\ PooledHeld <= size_
    /\ OverflowHeld <= NatDiff(ops, size_)

\* C7, the case: both bounds are met with overflow objects held.
C7_BoundsMet ==
    PooledHeld = size_ /\ OverflowHeld > 0 /\ OverflowHeld = ops - size_

\* address p can still come out of an allocate(): a caller holds it, a free()
\* is putting it back, it is in an unclaimed published entry, or it is in the
\* entry that a claimed allocate() is about to read
Recoverable(p) ==
    \/ HeldCount(p) > 0
    \/ RingCount(p) > 0
    \/ \E t \in Threads :
          \/ pc[t] \in {"reserve_cas", "wrap_store", "write_ptr", "publish"} /\ obj[t] = p
          \/ pc[t] = "read_obj"
                /\ ClaimedObject(free_objects_, current_index[t], mask_) = p

\* C8 (round trip): a pooled pointer that was freed is returned again by a
\* later allocate(); so it never leaves the set of pointers an allocate()
\* can still return.
C8_FreedPointerComesBack ==
    \A p \in everFreed : Recoverable(p)

\* C9 (lock-free progress): a thread inside allocate() or free() always has
\* a step of its own to take, whatever the other threads do; a CAS is retried
\* only when the cursor no longer has the value the thread loaded; and under
\* fair scheduling with finitely many calls every call that was started
\* returns.
C9_EveryCallReturns ==
    /\ [](\A t \in Threads : pc[t] # "idle" => ENABLED <<StepFair(t)>>_vars)
    /\ [][\A t \in Threads :
            /\ (pc[t] = "claim_cas" /\ pc'[t] = "reload")
                  => consumed_ # current_index[t]
            /\ (pc[t] = "reserve_cas" /\ reserved'[t] # reserved[t])
                  => reserved_ # reserved[t]]_vars
    /\ <>[](\A t \in Threads : pc[t] = "idle")

\* C9, the case: a claiming CAS is about to fail because another thread's
\* CAS has moved the consumer cursor since this thread loaded it.
C9_RetryPending ==
    \E t \in Threads : pc[t] = "claim_cas" /\ consumed_ # current_index[t]

\* C10: free(p) of a pointer outside [lo, hi] deletes p and changes neither
\* cursor, no control_ entry and no free_objects_ entry; free_objects_ never
\* holds such a pointer.
C10_OverflowFreeLeavesRing ==
    /\ [](\A s \in DOMAIN free_objects_ : free_objects_[s] \in Storage)
    /\ [][\A t \in Threads :
            (pc[t] = "idle" /\ ops' # ops) =>
                \A p \in FreshAddrs \cup { q \in Addrs : held[t][q] > 0 } :
                    ((p < lower_bound_ \/ p > upper_bound_)
                        /\ (FreeOf(t, p) \/ FreeForeignOf(t, p)))
                    => /\ UNCHANGED ring
                       /\ pc'[t] = "idle"
                       /\ p \notin heap']_vars

\* C10, the case: the ring has been emptied by allocate() and no pooled
\* pointer has come back; the further calls were allocations from the heap
\* and free() calls on pointers outside [lo, hi], and no such object is left.
C10_OverflowFreed ==
    /\ Quiescent
    /\ consumed_ = size_ /\ PooledHeld = size_
    /\ reserved_.index_ = size_
    /\ heap = {}
    /\ ops >= size_ + 2

\* C11 (construction): for a power-of-two capacity N, when the constructor
\* returns the producer cursor is N, the consumer cursor is 0, slot i is
\* published with index i and holds &buffer_[i], the ring holds exactly the
\* N pooled pointers, and size() is N.
C11_ConstructionPostcondition ==
    (pc[SeqThread] = "idle" /\ ops = 0 /\ IsPow2(size_)) =>
        /\ reserved_.index_ = size_
        /\ consumed_ = 0
        /\ DOMAIN control_ = 0 .. size_ - 1
        /\ DOMAIN free_objects_ = 0 .. size_ - 1
        /\ \A s \in 0 .. size_ - 1 :
              /\ control_[s].data_index = s
              /\ control_[s].size = 1
              /\ free_objects_[s] = AddrOf(s)
        /\ PublishedUnclaimed = 0 .. size_ - 1
        /\ lower_bound_ = AddrOf(0) /\ upper_bound_ = AddrOf(size_ - 1)

\* C12: a capacity that is zero or not a power of two never yields a pool;
\* the constructor does not return for it.
C12_InvalidSizeRejected ==
    pc[SeqThread] = "idle" => IsPow2(size_)

\* C13: when reset() returns, whatever the state it was called in, the ring
\* is as the constructor leaves it (producer cursor N, consumer cursor 0,
\* slot i published with index i and holding &buffer_[i]); and after a
\* reset(), as long as no pooled pointer has been freed since, the first N
\* allocate() calls return pairwise distinct pointers inside [lo, hi].
C13_ResetRestoresRing ==
    /\ [][(pc[SeqThread] = "reset_seed" /\ pc'[SeqThread] = "idle") =>
             /\ reserved_'.index_ = size_
             /\ consumed_' = 0
             /\ \A s \in 0 .. size_ - 1 :
                   /\ control_'[s].data_index = s
                   /\ free_objects_'[s] = AddrOf(s)]_vars
    /\ []((resetDone /\ everFreed = {}) =>
             \A k \in 1 .. Len(run) :
                 k <= size_ =>
                     /\ run[k] >= lower_bound_ /\ run[k] <= upper_bound_
                     /\ \A j \in 1 .. (k - 1) : run[j] # run[k])

\* C13, the case: reset() ran while callers held pooled pointers, and N
\* allocate() calls have returned since; more than N pooled pointers are
\* now held.
C13_AllocatedAfterReset ==
    /\ everFreed = {}
    /\ Len(run) >= size_
    /\ PooledHeld > size_
    /\ consumed_ = size_

\* C14 (index wrap-around): in cycles of `allocate N, free N` that carry
\* the cursors past 2^IndexBits - 1, consume() never takes the
\* reset-detection branch, no storage address has two holders, and no pooled
\* pointer is lost: every allocate() is served from the ring, none from the
\* heap.
C14_WrapTolerated ==
    /\ pc[SeqThread] # "reset_store"
    /\ \A a \in Storage : HeldCount(a) <= 1
    /\ OverflowHeld = 0

\* C15: the pointer an allocate() reads at line 415 after claiming index i
\* is the one written by the reservation of index i.  The entry
\* free_objects_[i & mask_] belongs to index i as long as the slot's
\* data_index is i and no free() holding a later reservation of the slot has
\* executed its store (line 240).
C15_ClaimReadsItsOwnEntry ==
    \A t \in Threads :
        pc[t] = "read_obj" =>
            LET s == BitAnd(current_index[t], mask_) IN
            /\ control_[s].data_index = current_index[t]
            /\ \A u \in Threads :
                  pc[u] = "publish" => BitAnd(index[u], mask_) # s

\* C16 (cursor bound): the producer cursor is never behind the consumer
\* cursor and never more than N ahead of it.
C16_CursorBound ==
    /\ consumed_ <= reserved_.index_
    /\ reserved_.index_ - consumed_ <= size_

\* C16, the case: after free() calls have advanced the producer cursor the
\* consumer cursor has caught up with it.
C16_RingDrained ==
    reserved_.index_ > size_ /\ consumed_ = reserved_.index_

\* threads that have claimed an index and not yet returned from allocate(),
\* or have begun free() of a pooled pointer and not yet reserved an index
InFlight == Cardinality({ t \in Threads : pc[t] \in {"read_obj", "reserve_cas"} })

\* producer cursor - consumer cursor = N - (pooled pointers claimed and not
\* yet given a reservation by free())
OccupancyEquation ==
    Ahead(reserved_.index_) = size_ - (PooledHeld + InFlight)

\* C17 (occupancy): the occupancy equation holds in every state; whenever
\* every pooled pointer is back the difference is N again, and the N
\* allocate() calls of each cycle `allocate N, free N` return exactly the N
\* storage addresses.
C17_Occupancy ==
    /\ OccupancyEquation
    /\ (Quiescent /\ PooledHeld = 0) => reserved_.index_ - consumed_ = size_
    /\ (open /\ Len(run) >= size_) =>
           { run[k] : k \in 1 .. size_ } = Storage

\* C17, the case: a second cycle has handed out all N pooled pointers.
C17_SecondCycleAllocated ==
    /\ open /\ Len(run) = size_
    /\ consumed_ >= 2 * size_
    /\ reserved_.index_ = consumed_

\* C18: the consumer cursor never decreases; consume() never takes the
\* reset-detection branch, because a published index it has read from a
\* slot is never above the producer cursor.
C18_ConsumerMonotone ==
    /\ [][consumed_' >= consumed_]_vars
    /\ [](\A t \in Threads :
             /\ pc[t] # "reset_store"
             /\ (pc[t] = "check" /\ stored_index[t] # UINT64_MAX)
                   => stored_index[t] <= reserved_.index_)

\* C18, the case: consume() evaluates the reset test on a published index
\* after both cursors have moved.
C18_ResetTestEvaluated ==
    \E t \in Threads :
        /\ pc[t] = "check" /\ stored_index[t] # UINT64_MAX
        /\ consumed_ > 0 /\ reserved_.index_ > size_

\* C19 (slot generations): control_ changes only by publish(); the index a
\* publish() stores into slot s is larger than the one it replaces, by a
\* positive multiple of N, and every data_index v in slot s has
\* (v & mask_) = s.
C19_SlotGenerations ==
    /\ [](\A s \in DOMAIN control_ : BitAnd(control_[s].data_index, mask_) = s)
    /\ [][\A t \in Threads :
            (pc[t] = "publish" /\ pc'[t] # "publish") =>
                LET s   == BitAnd(index[t], mask_)
                    old == control_[s].data_index
                IN  /\ control_'[s].data_index = index[t]
                    /\ index[t] > old
                    /\ (index[t] - old) % size_ = 0]_vars
    /\ [][\A s \in DOMAIN control_ :
            control_'[s] # control_[s] =>
                \E t \in Threads :
                    /\ pc[t] = "publish" /\ pc'[t] # "publish"
                    /\ BitAnd(index[t], mask_) = s]_vars

\* C19, the case: a slot has been published twice since construction.
C19_SecondGeneration ==
    \E s \in DOMAIN control_ : control_[s].data_index >= s + 2 * size_

\* C20 (disjoint reservations): a successful reserve() returns the producer
\* index it found, advances the cursor by exactly 1 and does not take the
\* wrap-skip branch; the cursor moves in no other way, and no two free()
\* calls in progress hold the same index.
C20_DisjointReservations ==
    /\ [][\A t \in Threads :
            (pc[t] = "reserve_cas" /\ pc'[t] # "reserve_cas") =>
                /\ index'[t] = reserved_.index_
                /\ reserved_'.index_ = reserved_.index_ + 1
                /\ pc'[t] = "write_ptr"]_vars
    /\ [][reserved_' # reserved_ =>
            \E t \in Threads : pc[t] = "reserve_cas" /\ pc'[t] = "write_ptr"]_vars
    /\ [](\A t, u \in Threads :
             (t # u /\ pc[t] \in {"write_ptr", "publish"}
                    /\ pc[u] \in {"write_ptr", "publish"})
                 => index[t] # index[u])

\* C20, the case: two free() calls hold reservations at the same time, one
\* of them after a failed CAS.
C20_TwoReservations ==
    \A t \in Threads : pc[t] \in {"write_ptr", "publish"}

\* the threads inside free() that hold a reservation not yet published
Reserving == { t \in Threads : pc[t] \in {"write_ptr", "publish"} }

\* C21 (no overwrite of an unclaimed entry): whenever a free() holds a
\* reservation i, i >= N, the slot it is about to overwrite holds the
\* published index i - N, and the CAS of an allocate() has claimed that index.
C21_PreviousLapClaimed ==
    \A t \in Reserving :
        LET i == index[t]
            s == BitAnd(i, mask_)
        IN  /\ i >= size_
            /\ control_[s].data_index = i - size_
            /\ i - size_ \in claimed

\* C21, the case: a free() holds a reservation of a later lap while the
\* consumer cursor is only one past the entry of the previous lap, and
\* another thread is inside allocate().
C21_TightReservation ==
    \E t \in Reserving :
        /\ consumed_ = index[t] - size_ + 1
        /\ \E u \in Threads : pc[u] \in {"load_slot", "check", "claim_cas"}

\* thread t has loaded a consumer cursor value that is the reservation of a
\* free() not yet published
AtUnpublished(t) == \E u \in Reserving : index[u] = current_index[t]

\* C22 (the consumer cursor never passes an unpublished reservation): the
\* consumer cursor is at or below every reserved, unpublished index; the
\* slot of such an index still shows an older index; an allocate() that
\* loads the slot while the cursor it read is at such an index finds no
\* data, and an allocate() that finds no data returns a new non-pool object
\* and leaves the consumer cursor as it is.
C22_CursorStopsAtUnpublished ==
    /\ [](\A u \in Reserving :
             /\ consumed_ <= index[u]
             /\ control_[BitAnd(index[u], mask_)].data_index < index[u])
    /\ [][\A t \in Threads :
            (pc[t] = "load_slot" /\ pc'[t] = "check" /\ AtUnpublished(t)) =>
                /\ ~ResetDetected(stored_index'[t], reserved_.index_)
                /\ NoData(stored_index'[t], current_index[t])]_vars
    /\ [][\A t \in Threads :
            (pc[t] = "check" /\ pc'[t] # "check"
                /\ ~ResetDetected(stored_index[t], reserved_.index_)
                /\ NoData(stored_index[t], current_index[t])) =>
                /\ consumed_' = consumed_
                /\ pc'[t] = "idle"
                /\ \E a \in Addrs \ heap :
                       /\ a # nullptr
                       /\ ~PoolOwned(a, lower_bound_, upper_bound_)
                       /\ heap' = heap \cup {a}
                       /\ held'[t] = Take(held[t], a)]_vars

\* C22, the case: an allocate() has returned a heap object while the
\* consumer cursor stands at a reservation that is still unpublished.
C22_ParkedAtReservation ==
    \E u \in Reserving :
        /\ consumed_ = index[u]
        /\ \E t \in Threads \ {u} :
               /\ pc[t] = "idle"
               /\ \E a \in heap : held[t][a] > 0

\* the threads that have claimed an index and not yet returned
Claiming == { t \in Threads : pc[t] = "read_obj" }

\* C23 (exclusive claim of indices): the consumer cursor changes only in a
\* successful claiming CAS, which moves it from the claimed index to the
\* next one; so the cursor is strictly increasing, no expected value can
\* succeed twice, and the indices of the claims in progress are pairwise
\* different and below the cursor.
C23_ExclusiveClaim ==
    /\ [][consumed_' # consumed_ =>
            /\ consumed_' = consumed_ + 1
            /\ \E t \in Threads :
                   /\ pc[t] = "claim_cas" /\ pc'[t] = "read_obj"
                   /\ current_index[t] = consumed_
                   /\ \A u \in Threads \ {t} : pc'[u] = pc[u]]_vars
    /\ [][\A t \in Threads :
            (pc[t] = "claim_cas" /\ pc'[t] = "read_obj") =>
                consumed_' = current_index[t] + 1]_vars
    /\ [](\A t \in Claiming :
             /\ current_index[t] < consumed_
             /\ \A u \in Claiming \ {t} : current_index[u] # current_index[t])

\* C23, the case: two allocate() calls have loaded the same cursor value
\* and reached the claiming CAS; one has claimed the index, the other has
\* not yet tried.
C23_ContendedClaim ==
    \E t, u \in Threads :
        /\ pc[t] = "read_obj" /\ pc[u] = "claim_cas"
        /\ current_index[u] = current_index[t]

\* the ring read as a queue: the pointers of the published, unclaimed
\* indices, in the order in which the consumer cursor reaches them
Queue ==
    LET PU == PublishedUnclaimed
        Nth(k) == CHOOSE j \in PU :
                      Cardinality({ i \in PU : Ahead(i) < Ahead(j) }) = k - 1
    IN  [k \in 1 .. Cardinality(PU) |-> free_objects_[BitAnd(Nth(k), mask_)]]

\* C24 (sequential FIFO order): with one thread the ring is a FIFO queue of
\* capacity N that starts as storage[0], ..., storage[N-1]: the claim of
\* allocate() removes the head and allocate() returns that pointer,
\* free() of a pool-owned pointer appends it at the tail, no other step
\* changes the queue, and allocate() takes the heap exactly when the queue
\* is empty.
C24_SequentialFifo ==
    /\ [](/\ Len(Queue) <= size_
          /\ PublishedUnclaimed = consumed_ .. (consumed_ + Len(Queue) - 1)
          /\ ops = 0 => Queue = [k \in 1 .. size_ |-> AddrOf(k - 1)])
    /\ [][(pc[SeqThread] = "claim_cas" /\ pc'[SeqThread] = "read_obj") =>
             /\ Queue # << >>
             /\ Queue' = Tail(Queue)
             /\ free_objects_'[BitAnd(current_index[SeqThread], mask_)] = Head(Queue)]_vars
    /\ [][(pc[SeqThread] = "read_obj" /\ pc'[SeqThread] # "read_obj") =>
             /\ pc'[SeqThread] = "idle"
             /\ held'[SeqThread] = Take(held[SeqThread], free_objects_[BitAnd(current_index[SeqThread], mask_)])
             /\ heap' = heap]_vars
    /\ [][(pc[SeqThread] = "check" /\ pc'[SeqThread] = "idle") =>
             /\ Queue = << >>
             /\ \E a \in heap' \ heap : held'[SeqThread] = Take(held[SeqThread], a)]_vars
    /\ [][(pc[SeqThread] = "check" /\ pc'[SeqThread] # "idle") =>
             /\ Queue # << >>
             /\ pc'[SeqThread] = "claim_cas"]_vars
    /\ [][(pc[SeqThread] = "publish" /\ pc'[SeqThread] # "publish") =>
             /\ PoolOwned(obj[SeqThread], lower_bound_, upper_bound_)
             /\ Len(Queue) < size_
             /\ Queue' = Append(Queue, obj[SeqThread])]_vars
    /\ [][(pc[SeqThread] = "idle" /\ pc'[SeqThread] = "reserve_cas") =>
             \E p \in Storage : held[SeqThread][p] > 0 /\ obj'[SeqThread] = p]_vars
    /\ [][(~(pc[SeqThread] = "claim_cas" /\ pc'[SeqThread] = "read_obj")
              /\ ~(pc[SeqThread] = "publish" /\ pc'[SeqThread] # "publish")) =>
             Queue' = Queue]_vars

\* C24, the case: after `allocate, allocate, free(storage[1]),
\* free(storage[0])` on a pool of two, allocate() has returned storage[1],
\* the pointer freed first, and storage[0] is the queue.
C24_FreedFirstReturnedFirst ==
    /\ size_ = 2 /\ pc[SeqThread] = "idle"
    /\ consumed_ = 3
    /\ held[SeqThread][AddrOf(1)] = 1
    /\ Queue = << AddrOf(0) >>

\* a step in which reserve() writes its wrap-skip record
RecordStep == pc[SeqThread] = "wrap_store" /\ pc'[SeqThread] # "wrap_store"

\* a step in which the fast-forward CAS of consume() (line 407) succeeds
SkipStep == pc[SeqThread] = "skip_cas" /\ consumed_' # consumed_

\* reserve(n), 1 <= n <= N, returns an index i with (i & mask_) + n <= N and
\* leaves the producer cursor at i + n; a reservation that would straddle
\* the ring end returns the next multiple of N and writes the record
\* {data_index = i, size = n} into the slot of the index it found, and into
\* no other slot
C25_Placement ==
    /\ [][reserved_' # reserved_ =>
            LET n   == reserved_'.size_
                i   == reserved_'.index_ - n
                idx == BitAnd(reserved_.index_, mask_)
            IN  /\ n \in 1 .. size_
                /\ BitAnd(i, mask_) + n <= size_
                /\ IF idx + n > size_
                   THEN /\ i = reserved_.index_ + (size_ - idx)
                        /\ BitAnd(i, mask_) = 0
                        /\ pc'[SeqThread] = "wrap_store"
                        /\ index'[SeqThread] = i
                        /\ reserved'[SeqThread] = reserved_
                   ELSE /\ i = reserved_.index_
                        /\ pc'[SeqThread] # "wrap_store"]_vars
    /\ [][RecordStep =>
            LET s == BitAnd(reserved[SeqThread].index_, mask_) IN
                /\ control_'[s] = [data_index |-> index[SeqThread],
                                   size |-> reserved_.size_]
                /\ \A q \in DOMAIN control_ \ {s} : control_'[q] = control_[q]]_vars

\* the fast-forward moves the cursor to the index a record holds, the start
\* of the ring, and changes the published, unclaimed positions in no way
FastForward ==
    /\ consumed_' = stored_index[SeqThread]
    /\ consumed_' > consumed_
    /\ BitAnd(consumed_', mask_) = 0
    /\ PublishedUnclaimed' = PublishedUnclaimed

====
